---- MODULE Spec2Model ----
(***************************************************************************)
(* A model of two pieces of CKEditor 5:                                    *)
(*   - the abstract view Observer (engine/view/observer/observer):         *)
(*     its isEnabled flag, enable(), disable(), destroy();                 *)
(*   - the find-and-replace utilities (find-and-replace/src/utils.js):     *)
(*     updateFindResultFromRange, rangeToText, findInsertIndex.            *)
(***************************************************************************)
EXTENDS Integers, Sequences, FiniteSets, TLC

VARIABLES
    \* ---- Observer ----
    observer,       \* the Observer object: view, document, isEnabled, listeningTo
    lastCall,       \* history: the last public method called on the observer
    prevCall,       \* history: the public method called before lastCall
    lastToggle,     \* history: the last of enable()/disable() that ran
    destroyed,      \* history: destroy() has been called
    observedSince,  \* history: observe() has been called after destroy()
    domEvents,      \* history: number of DOM events dispatched on a root
    fired,          \* history: number of view document events fired
    suppressed,     \* history: number of DOM events on an observed root that fired nothing
    domEventsSince, \* history: number of DOM events dispatched after destroy()
    firedSince,     \* history: number of view document events fired after destroy()
    \* ---- find and replace ----
    pc,             \* where updateFindResultFromRange stands
    pos,            \* index of the walker value the outer forEach is at
    foundItems,     \* the hits of the current element not yet handled by the inner forEach
    current,        \* the hit and the marker of the model.change() block that is open
    markers,        \* model.markers
    results,        \* the results collection
    index,          \* the index findInsertIndex gave for the last record added
    nextUid,        \* the number of uid() values drawn, plus one
    results0,       \* history: the results collection when the scan started
    markers0,       \* history: model.markers when the scan started
    calls,          \* history: the arguments findCallback was called with, in order
    inserted,       \* history: the records the scan added, in the order it added them
    faulted,        \* history: the element findCallback threw for, or NoElement
    \* ---- the functions tried on their own ----
    domTarget,      \* the DOM node checkShouldIgnoreEventFromTarget is given
    ignoring,       \* the DOM elements that carry data-cke-ignore-events
    answer,         \* what checkShouldIgnoreEventFromTarget returned, once it has
    textRange,      \* the range rangeToText is given
    flattened       \* what rangeToText returned, once it has

obsVars == <<observer, lastCall, prevCall, lastToggle, destroyed, observedSince,
             domEvents, fired, suppressed, domEventsSince, firedSince>>

scanVars == <<pc, pos, foundItems, current, markers, results, index, nextUid,
              results0, markers0, calls, inserted, faulted>>

pureVars == <<domTarget, ignoring, answer, textRange, flattened>>

vars == <<obsVars, scanVars, pureVars>>

(***************************************************************************)
(* Bounds                                                                  *)
(***************************************************************************)
\* The number of DOM events dispatched in one behaviour.
MaxEvents == 2
\* The number of hits findCallback returns in one scan, all elements together.
MaxHits == 2
\* The largest offset a hit names.
MaxOffset == 2
\* The number of records in the results findInsertIndex is tried on, and the
\* largest offset at which one of their markers starts.
MaxRecords == 3
MaxStart == 10

(***************************************************************************)
(* Observer                                                                *)
(***************************************************************************)
NoElement == "none"
NoNode == "null"

\* The state of the functions tried on their own while they are not tried.
PureIdle ==
    /\ domTarget = NoNode
    /\ ignoring = {}
    /\ answer = <<>>
    /\ textRange = <<>>
    /\ flattened = <<>>

\* The find-and-replace state while only the observer is exercised.
ScanIdle ==
    /\ pc = "idle"
    /\ pos = 0
    /\ foundItems = <<>>
    /\ current = <<>>
    /\ markers = {}
    /\ results = <<>>
    /\ index = 0
    /\ nextUid = 1
    /\ results0 = <<>>
    /\ markers0 = {}
    /\ calls = <<>>
    /\ inserted = <<>>
    /\ faulted = NoElement

\* The views an observer may be constructed for, and the DOM roots it may observe.
Views == {"view1", "view2"}
DomRoots == {"main", "title"}

\* view.document
ViewDocument(view) == <<"document", view>>

\* constructor( view ): the observer starts disabled; it listens to nothing yet.
Observer(view) ==
    [ view        |-> view,
      document    |-> ViewDocument(view),
      isEnabled   |-> FALSE,
      listeningTo |-> {} ]

enableToggles(o) == [o EXCEPT !.isEnabled = ~o.isEnabled]

\* enable(): this.isEnabled = true
enable(o) == [o EXCEPT !.isEnabled = TRUE]

disableKeepsFlag(o) == o

\* disable(): this.isEnabled = false
disable(o) == [o EXCEPT !.isEnabled = FALSE]

\* DomEmitterMixin.stopListening(): every listener the object registered is removed.
stopListening(o) == [o EXCEPT !.listeningTo = {}]

\* DomEmitterMixin.listenTo( domElement, ... ) as a concrete observe() calls it.
listenTo(o, domElement) == [o EXCEPT !.listeningTo = @ \cup {domElement}]

destroyKeepsFlag(o) == stopListening(o)

destroyKeepsListeners(o) == disable(o)

\* destroy(): this.disable(); this.stopListening();
destroy(o) == stopListening(disable(o))

firesWhenDisabled(o, domElement) == domElement \in o.listeningTo

\* The listener a concrete observer attaches in observe(): a DOM event on a root
\* becomes a view document event only if the observer listens to that root and
\* is enabled.
firesViewEvent(o, domElement) ==
    /\ domElement \in o.listeningTo
    /\ o.isEnabled

\* The observer state while only the scan is exercised.
ObserverIdle ==
    /\ observer = Observer("view1")
    /\ lastCall = "new"
    /\ prevCall = "new"
    /\ lastToggle = "none"
    /\ destroyed = FALSE
    /\ observedSince = FALSE
    /\ domEvents = 0
    /\ fired = 0
    /\ suppressed = 0
    /\ domEventsSince = 0
    /\ firedSince = 0

InitObserver ==
    /\ \E view \in Views : observer = Observer(view)
    /\ lastCall = "new"
    /\ prevCall = "new"
    /\ lastToggle = "none"
    /\ destroyed = FALSE
    /\ observedSince = FALSE
    /\ domEvents = 0
    /\ fired = 0
    /\ suppressed = 0
    /\ domEventsSince = 0
    /\ firedSince = 0
    /\ ScanIdle
    /\ PureIdle

Enable ==
    /\ observer' = enable(observer)
    /\ lastCall' = "enable"
    /\ prevCall' = lastCall
    /\ lastToggle' = "enable"
    /\ UNCHANGED <<destroyed, observedSince, domEvents, fired, suppressed, domEventsSince, firedSince>>
    /\ UNCHANGED scanVars
    /\ UNCHANGED pureVars

Disable ==
    /\ observer' = disable(observer)
    /\ lastCall' = "disable"
    /\ prevCall' = lastCall
    /\ lastToggle' = "disable"
    /\ UNCHANGED <<destroyed, observedSince, domEvents, fired, suppressed, domEventsSince, firedSince>>
    /\ UNCHANGED scanVars
    /\ UNCHANGED pureVars

Destroy ==
    /\ observer' = destroy(observer)
    /\ lastCall' = "destroy"
    /\ prevCall' = lastCall
    /\ lastToggle' = "disable"
    /\ destroyed' = TRUE
    /\ observedSince' = FALSE
    /\ domEventsSince' = 0
    /\ firedSince' = 0
    /\ UNCHANGED <<domEvents, fired, suppressed>>
    /\ UNCHANGED scanVars
    /\ UNCHANGED pureVars

Observe(domElement) ==
    /\ observer' = listenTo(observer, domElement)
    /\ lastCall' = "observe"
    /\ prevCall' = lastCall
    /\ observedSince' = destroyed
    /\ UNCHANGED <<lastToggle, destroyed, domEvents, fired, suppressed, domEventsSince, firedSince>>
    /\ UNCHANGED scanVars
    /\ UNCHANGED pureVars

\* The browser dispatches a DOM event on a root element.
DomEvent(domElement) ==
    /\ domEvents < MaxEvents
    /\ domEvents' = domEvents + 1
    /\ domEventsSince' = IF destroyed THEN domEventsSince + 1 ELSE domEventsSince
    /\ IF firesViewEvent(observer, domElement)
         THEN /\ fired' = fired + 1
              /\ firedSince' = IF destroyed THEN firedSince + 1 ELSE firedSince
         ELSE UNCHANGED <<fired, firedSince>>
    /\ suppressed' = IF domElement \in observer.listeningTo
                          /\ ~firesViewEvent(observer, domElement)
                       THEN suppressed + 1 ELSE suppressed
    /\ UNCHANGED <<observer, lastCall, prevCall, lastToggle, destroyed, observedSince>>
    /\ UNCHANGED scanVars
    /\ UNCHANGED pureVars

NextObserver ==
    \/ Enable
    \/ Disable
    \/ Destroy
    \/ \E domElement \in DomRoots : Observe(domElement)
    \/ \E domElement \in DomRoots : DomEvent(domElement)

SpecObserver == InitObserver /\ [][NextObserver]_vars

(***************************************************************************)
(* Observer: properties                                                    *)
(***************************************************************************)
\* C3 (as stated): after destroy() the observer is disabled permanently:
\* isEnabled is false in every later state, whatever enable()/disable() calls follow.
C3_DisabledForeverAfterDestroy == destroyed => ~observer.isEnabled

\* C3 (amended): destroy() leaves isEnabled false, and after destroy() isEnabled
\* is false exactly as long as no enable() call has followed: a later enable()
\* sets it to true again.
C3_DisabledUntilEnableAfterDestroy ==
    /\ lastCall = "destroy" => ~observer.isEnabled
    /\ destroyed => (observer.isEnabled <=> lastToggle = "enable")

\* C3 witness: enable() was called after destroy().
C3_EnabledAfterDestroy ==
    destroyed /\ prevCall = "destroy" /\ lastCall = "enable" /\ observer.isEnabled

\* C4: every step that fires a view document event starts in a state where
\* isEnabled is true.
C4_FiresOnlyWhenEnabled == [][fired' # fired => observer.isEnabled]_vars

\* C4 witness: one DOM event was turned into a view event and another, dispatched
\* on an observed root while the observer was disabled, was not.
C4_FiredAndSuppressed ==
    fired > 0 /\ suppressed > 0 /\ ~destroyed

\* C5: a new observer is disabled; isEnabled is a boolean that is true exactly
\* when the last of the enable()/disable() calls was enable().
C5_LastToggleDecides ==
    /\ observer.isEnabled \in BOOLEAN
    /\ lastCall = "new" => ~observer.isEnabled
    /\ lastToggle = "none" => ~observer.isEnabled
    /\ lastToggle = "enable" => observer.isEnabled
    /\ lastToggle = "disable" => ~observer.isEnabled

\* C5 witness: disable() followed by enable().
C5_EnableAfterDisable ==
    prevCall = "disable" /\ lastCall = "enable" /\ observer.isEnabled

\* C6: right after destroy() isEnabled is false and no listener is registered;
\* as long as observe() registers no new listener, enable() leaves the set of
\* listeners empty and no view document event is fired after destroy().
C6_DestroyedNeverFires ==
    /\ lastCall = "destroy" => ~observer.isEnabled /\ observer.listeningTo = {}
    /\ destroyed /\ ~observedSince =>
          observer.listeningTo = {} /\ firedSince = 0

\* C6 witness: an observer that had fired events was destroyed, then enabled
\* again, and a DOM event was dispatched after that.
C6_EnabledAfterDestroyStaysQuiet ==
    /\ destroyed /\ ~observedSince
    /\ observer.isEnabled
    /\ fired > 0
    /\ domEventsSince > 0

\* C10: enable() and disable() are idempotent and leave view, document and the
\* registered listeners as they are.
C10_ToggleIdempotentAndFramed ==
    /\ enable(enable(observer)) = enable(observer)
    /\ disable(disable(observer)) = disable(observer)
    /\ \A o \in {enable(observer), disable(observer)} :
          /\ o.view = observer.view
          /\ o.document = observer.document
          /\ o.listeningTo = observer.listeningTo
    /\ lastCall = "enable" => observer = enable(observer)
    /\ lastCall = "disable" => observer = disable(observer)

\* C10 witness: enable() called twice in a row on an observer with listeners.
C10_EnabledTwice ==
    /\ prevCall = "enable" /\ lastCall = "enable"
    /\ observer.listeningTo # {}


(***************************************************************************)
(* Observer: checkShouldIgnoreEventFromTarget                              *)
(***************************************************************************)
\* The DOM the targets are taken from: nodeType 1 is an element, 3 a text node,
\* 9 a document, 11 a document fragment.
\*   document > html > body > ( div > span > text1 ), text2
\*   fragment > fragmentElement, fragmentText
\*   detachedElement > detachedChild ;  detachedText
DomNodes ==
    [ document         |-> [nodeType |-> 9,  parentNode |-> NoNode],
      html             |-> [nodeType |-> 1,  parentNode |-> "document"],
      body             |-> [nodeType |-> 1,  parentNode |-> "html"],
      div              |-> [nodeType |-> 1,  parentNode |-> "body"],
      span             |-> [nodeType |-> 1,  parentNode |-> "div"],
      text1            |-> [nodeType |-> 3,  parentNode |-> "span"],
      text2            |-> [nodeType |-> 3,  parentNode |-> "body"],
      fragment         |-> [nodeType |-> 11, parentNode |-> NoNode],
      fragmentElement  |-> [nodeType |-> 1,  parentNode |-> "fragment"],
      fragmentText     |-> [nodeType |-> 3,  parentNode |-> "fragment"],
      detachedElement  |-> [nodeType |-> 1,  parentNode |-> NoNode],
      detachedText     |-> [nodeType |-> 3,  parentNode |-> NoNode] ]

DomElements == {node \in DOMAIN DomNodes : DomNodes[node].nodeType = 1}

RECURSIVE matches(_, _)
\* domTarget.matches( '[data-cke-ignore-events], [data-cke-ignore-events] *' ):
\* the element carries the attribute, or is a descendant of an element that does.
matches(element, carrying) ==
    \/ element \in carrying
    \/ /\ DomNodes[element].parentNode # NoNode
       /\ DomNodes[DomNodes[element].parentNode].nodeType = 1
       /\ matches(DomNodes[element].parentNode, carrying)

checkShouldIgnoreKeepsTextNode(target, carrying) ==
    IF target = NoNode \/ DomNodes[target].nodeType # 1
      THEN FALSE
      ELSE matches(target, carrying)

\* checkShouldIgnoreEventFromTarget( domTarget )
checkShouldIgnoreEventFromTarget(target, carrying) ==
    LET node == IF target # NoNode /\ DomNodes[target].nodeType = 3
                  THEN DomNodes[target].parentNode
                  ELSE target
    IN  IF node = NoNode \/ DomNodes[node].nodeType # 1
          THEN FALSE
          ELSE matches(node, carrying)

\* Any node of the DOM, or none, is the target; any set of elements carries the
\* attribute.
InitFilter ==
    /\ ObserverIdle
    /\ ScanIdle
    /\ domTarget \in DOMAIN DomNodes \cup {NoNode}
    /\ ignoring \in SUBSET DomElements
    /\ answer = <<>>
    /\ textRange = <<>>
    /\ flattened = <<>>

CheckTarget ==
    /\ answer = <<>>
    /\ answer' = <<checkShouldIgnoreEventFromTarget(domTarget, ignoring)>>
    /\ UNCHANGED <<domTarget, ignoring, textRange, flattened>>
    /\ UNCHANGED obsVars
    /\ UNCHANGED scanVars

NextFilter == CheckTarget

SpecFilter == InitFilter /\ [][NextFilter]_vars

\* The nodes on the way from a node up to the top of its tree, the node included.
inclusiveAncestors(node) ==
    LET up[n \in 0..Cardinality(DOMAIN DomNodes)] ==
            IF n = 0 THEN {node}
            ELSE up[n - 1] \cup
                 ({DomNodes[below].parentNode : below \in up[n - 1]} \ {NoNode})
    IN  up[Cardinality(DOMAIN DomNodes)]

\* The node the check is about: the parent of a text node, the node itself otherwise.
resolvedTarget ==
    IF domTarget # NoNode /\ DomNodes[domTarget].nodeType = 3
      THEN DomNodes[domTarget].parentNode
      ELSE domTarget

\* C11: with a text node replaced by its parent, the answer is false when the
\* target is absent or no element, and otherwise true exactly when the element or
\* one of its ancestor elements carries data-cke-ignore-events.
C11_IgnoresMarkedSubtrees ==
    answer # <<>> =>
        /\ (resolvedTarget = NoNode \/ resolvedTarget \notin DomElements)
              => answer[1] = FALSE
        /\ resolvedTarget \in DomElements =>
              (answer[1] <=> \E node \in inclusiveAncestors(resolvedTarget) :
                                node \in DomElements /\ node \in ignoring)

\* C11 witness: a text node is ignored because an ancestor of its parent, and
\* nothing nearer, carries the attribute.
C11_TextNodeUnderMarkedAncestor ==
    /\ answer = <<TRUE>>
    /\ domTarget = "text1"
    /\ ignoring = {"body"}

(***************************************************************************)
(* Find and replace: the model document                                    *)
(***************************************************************************)
\* A child of an element: a text node, its data a sequence of characters, or an
\* element.
TextNode(data) == [kind |-> "text", data |-> data, id |-> NoElement]
Element(id) == [kind |-> "element", data |-> <<>>, id |-> id]

\* The document the scan runs on:
\*   <paragraph>ab</paragraph>
\*   <blockQuote><paragraph>c<softBreak></softBreak>d</paragraph></blockQuote>
\*   <heading1>cat sat</heading1>
\* and a document fragment, which only rangeToText is tried on:
\*   <paragraph>ab<softBreak></softBreak>cd</paragraph><paragraph></paragraph>
Document ==
    [ root  |-> [name |-> "$root", children |-> <<Element("p1"), Element("quote"), Element("h1")>>],
      p1    |-> [name |-> "paragraph", children |-> <<TextNode(<<"a", "b">>)>>],
      quote |-> [name |-> "blockQuote", children |-> <<Element("p2")>>],
      p2    |-> [name |-> "paragraph",
                 children |-> <<TextNode(<<"c">>), Element("br"), TextNode(<<"d">>)>>],
      br    |-> [name |-> "softBreak", children |-> <<>>],
      h1    |-> [name |-> "heading1",
                 children |-> <<TextNode(<<"c", "a", "t", " ", "s", "a", "t">>)>>],
      fragment |-> [name |-> "$documentFragment", children |-> <<Element("p3"), Element("p4")>>],
      p3    |-> [name |-> "paragraph",
                 children |-> <<TextNode(<<"a", "b">>), Element("br3"), TextNode(<<"c", "d">>)>>],
      br3   |-> [name |-> "softBreak", children |-> <<>>],
      p4    |-> [name |-> "paragraph", children |-> <<>>] ]

Elements == DOMAIN Document

\* model.schema.checkChild( item, '$text' ): blocks take text; the root, a block
\* quote and a soft break do not.
checkChild(item) == Document[item].name \in {"paragraph", "heading1"}

\* The number of offsets a node takes in its parent: a text node its length,
\* an element one.
offsetSize(node) == IF node.kind = "text" THEN Len(node.data) ELSE 1

RECURSIVE startOffset(_, _)
\* The offset at which the i-th child of an element starts.
startOffset(parent, i) ==
    IF i = 1 THEN 0
    ELSE startOffset(parent, i - 1) + offsetSize(Document[parent].children[i - 1])

parentOf(item) ==
    CHOOSE parent \in Elements :
        \E i \in DOMAIN Document[parent].children :
            Document[parent].children[i] = Element(item)

indexIn(parent, item) ==
    CHOOSE i \in DOMAIN Document[parent].children :
        Document[parent].children[i] = Element(item)

RECURSIVE getPath(_)
\* item.getPath(): the offsets leading from the root to the element.
getPath(item) ==
    IF item \in {"root", "fragment"} THEN <<>>
    ELSE getPath(parentOf(item))
            \o <<startOffset(parentOf(item), indexIn(parentOf(item), item))>>

\* writer.createPositionAt( item, offset )
createPositionAt(item, offset) == getPath(item) \o <<offset>>

createCollapsedRange(start, end) == [start |-> start, end |-> start]

\* writer.createRange( start, end )
createRange(start, end) == [start |-> start, end |-> end]

\* item.maxOffset: the offset after the last child.
maxOffset(item) == startOffset(item, Len(Document[item].children) + 1)

\* model.createRangeIn( item ); a range with both ends in one element.
createRangeIn(item) == [item |-> item, start |-> 0, end |-> maxOffset(item)]

RECURSIVE walkFrom(_, _, _, _)
\* The values a TreeWalker yields between two offsets of an element, from the
\* i-th child on: for a text node the part of it between the offsets, as text;
\* for an element elementStart, the values of its content, and elementEnd.
walkFrom(item, i, start, end) ==
    IF i > Len(Document[item].children) THEN <<>>
    ELSE LET node == Document[item].children[i]
             from == startOffset(item, i)
             to == from + offsetSize(node)
             low == IF from < start THEN start ELSE from
             high == IF to > end THEN end ELSE to
         IN  (IF low >= high THEN <<>>
              ELSE IF node.kind = "text"
                THEN <<[type |-> "text", item |-> NoElement,
                        data |-> SubSeq(node.data, low - from + 1, high - from)]>>
                ELSE <<[type |-> "elementStart", item |-> node.id, data |-> <<>>]>>
                       \o walkFrom(node.id, 1, 0, maxOffset(node.id))
                       \o <<[type |-> "elementEnd", item |-> node.id, data |-> <<>>]>>)
             \o walkFrom(item, i + 1, start, end)

\* [ ...range ]
walkRange(range) == walkFrom(range.item, 1, range.start, range.end)

\* Array.from( range.getItems() ): the walker's values without the elementEnd ones.
getItems(range) ==
    SelectSeq(walkRange(range), LAMBDA value : value.type # "elementEnd")

RECURSIVE reduceSkipsElements(_, _)
reduceSkipsElements(rangeText, nodes) ==
    IF nodes = <<>> THEN rangeText
    ELSE reduceSkipsElements(
            IF Head(nodes).type # "text"
              THEN rangeText
              ELSE rangeText \o Head(nodes).data,
            Tail(nodes))

RECURSIVE reduceToText(_, _)
\* nodes.reduce( ( rangeText, node ) => ..., rangeText ): a node that is no text
\* adds "\n", a text node or text proxy its data.
reduceToText(rangeText, nodes) ==
    IF nodes = <<>> THEN rangeText
    ELSE reduceToText(
            IF Head(nodes).type # "text"
              THEN rangeText \o <<"\n">>
              ELSE rangeText \o Head(nodes).data,
            Tail(nodes))

\* rangeToText( range ); the text is a sequence of characters.
rangeToText(range) == reduceToText(<<>>, getItems(range))

(***************************************************************************)
(* Find and replace: rangeToText on its own                                *)
(***************************************************************************)
\* The ranges with both ends in one element of the document or of the fragment.
flatRanges ==
    UNION { { [item |-> item, start |-> offsets[1], end |-> offsets[2]] :
                offsets \in { pair \in (0..maxOffset(item)) \X (0..maxOffset(item)) :
                                 pair[1] <= pair[2] } } : item \in Elements }

InitText ==
    /\ ObserverIdle
    /\ ScanIdle
    /\ domTarget = NoNode
    /\ ignoring = {}
    /\ answer = <<>>
    /\ \E range \in flatRanges : textRange = <<range>>
    /\ flattened = <<>>

FlattenRange ==
    /\ textRange # <<>>
    /\ flattened = <<>>
    /\ flattened' = <<rangeToText(textRange[1])>>
    /\ UNCHANGED <<domTarget, ignoring, answer, textRange>>
    /\ UNCHANGED obsVars
    /\ UNCHANGED scanVars

NextText == FlattenRange

SpecText == InitText /\ [][NextText]_vars

\* What stands at an offset of an element: a character of a text node, or the
\* name of the element there.
unitAt(item, offset) ==
    LET i == CHOOSE j \in DOMAIN Document[item].children :
                 /\ startOffset(item, j) <= offset
                 /\ offset < startOffset(item, j + 1)
        node == Document[item].children[i]
    IN  IF node.kind = "text"
          THEN [text |-> TRUE, value |-> node.data[offset - startOffset(item, i) + 1]]
          ELSE [text |-> FALSE, value |-> Document[node.id].name]

\* The units a range spans, one for each offset from its start to its end.
unitsOf(range) ==
    [k \in 1..(range.end - range.start) |-> unitAt(range.item, range.start + k - 1)]

\* The children of the range's element that lie in the range are text or soft breaks.
onlyTextAndSoftBreaks(range) ==
    \A k \in DOMAIN unitsOf(range) :
        unitsOf(range)[k].text \/ unitsOf(range)[k].value = "softBreak"

RECURSIVE piecesOf(_)
\* The items' contributions one after the other, the last item's last.
piecesOf(nodes) ==
    IF nodes = <<>> THEN <<>>
    ELSE piecesOf(SubSeq(nodes, 1, Len(nodes) - 1))
            \o (IF nodes[Len(nodes)].type = "text" THEN nodes[Len(nodes)].data
                                                   ELSE <<"\n">>)

\* C12: the text is, item by item in document order, the data of a text item and
\* one "\n" for any other item; for a range whose items are text and soft breaks
\* its length is the number of offsets the range spans, with each character at
\* the offset it has in the document and "\n" at the offset of each soft break
\* ("ab", a soft break, "cd" give "ab\ncd", of length 5).
C12_TextMatchesRange ==
    flattened # <<>> =>
        LET range == textRange[1]
            text == flattened[1]
        IN  /\ text = piecesOf(getItems(range))
            /\ onlyTextAndSoftBreaks(range) =>
                  /\ Len(text) = range.end - range.start
                  /\ \A k \in DOMAIN text :
                        text[k] = IF unitsOf(range)[k].text THEN unitsOf(range)[k].value
                                                            ELSE "\n"
            /\ range = createRangeIn("p3") => text = <<"a", "b", "\n", "c", "d">>

\* C12 witness: the range holding "ab", a soft break and "cd" was flattened to
\* five characters.
C12_SoftBreakExample ==
    /\ flattened # <<>>
    /\ textRange[1] = [item |-> "p3", start |-> 0, end |-> 5]
    /\ flattened[1] = <<"a", "b", "\n", "c", "d">>
    /\ Len(flattened[1]) = 5

(***************************************************************************)
(* Find and replace: positions, the results collection, findInsertIndex    *)
(***************************************************************************)
\* compareArrays( a, b ): "same", "prefix", "extension", or "index" with the
\* first index (from 0) at which the arrays differ.
compareArrays(a, b) ==
    LET minLen == IF Len(a) < Len(b) THEN Len(a) ELSE Len(b)
        differ == {i \in 1..minLen : a[i] # b[i]}
    IN  IF differ # {}
          THEN [ relation |-> "index",
                 index |-> (CHOOSE i \in differ : \A j \in differ : i <= j) - 1 ]
        ELSE IF Len(a) = Len(b) THEN [relation |-> "same", index |-> 0]
        ELSE IF Len(a) < Len(b) THEN [relation |-> "prefix", index |-> 0]
        ELSE [relation |-> "extension", index |-> 0]

\* Position.isBefore( otherPosition ) for two positions of one root.
isBefore(position, otherPosition) ==
    LET result == compareArrays(position, otherPosition)
    IN  CASE result.relation = "same" -> FALSE
          [] result.relation = "prefix" -> TRUE
          [] result.relation = "extension" -> FALSE
          [] OTHER -> position[result.index + 1] < otherPosition[result.index + 1]

\* The least of a non-empty set of indexes: Collection.find( callback ) returns
\* the first item the callback accepts.
first(indexes) == CHOOSE i \in indexes : \A j \in indexes : i <= j

\* Collection.getIndex( item ): the index, from 0, of the item in the list.
getIndex(list, item) == first({i \in DOMAIN list : list[i] = item}) - 1

\* Collection.add( item, index ): the item is spliced in at the index (from 0).
add(list, item, atIndex) ==
    SubSeq(list, 1, atIndex) \o <<item>> \o SubSeq(list, atIndex + 1, Len(list))

findInsertIndexAtOrAfter(resultsList, markerToInsert) ==
    LET found == {i \in DOMAIN resultsList :
                     ~isBefore(resultsList[i].marker.start, markerToInsert.start)}
    IN  IF found # {} THEN getIndex(resultsList, resultsList[first(found)])
        ELSE Len(resultsList)

findInsertIndexAppends(resultsList, markerToInsert) == Len(resultsList)

findInsertIndexBeforeEarlier(resultsList, markerToInsert) ==
    LET found == {i \in DOMAIN resultsList :
                     isBefore(resultsList[i].marker.start, markerToInsert.start)}
    IN  IF found # {} THEN getIndex(resultsList, resultsList[first(found)])
        ELSE Len(resultsList)

\* findInsertIndex( resultsList, markerToInsert ): the index of the first result
\* the new marker's start is before, or the length.
findInsertIndex(resultsList, markerToInsert) ==
    LET found == {i \in DOMAIN resultsList :
                     isBefore(markerToInsert.start, resultsList[i].marker.start)}
    IN  IF found # {} THEN getIndex(resultsList, resultsList[first(found)])
        ELSE Len(resultsList)

\* The marker writer.addMarker( resultId, { usingOperation: false,
\* affectsData: false, range } ) creates.
addMarker(name, range) ==
    [ name |-> name, start |-> range.start, end |-> range.end,
      usingOperation |-> FALSE, affectsData |-> FALSE ]

\* `findResult:${ uid() }`, uid() giving a value it never gave before.
resultId(n) == <<"findResult:", n>>

\* The start positions of the records of a list, in the list's order.
starts(list) == [i \in DOMAIN list |-> list[i].marker.start]

\* A list of positions is in document order: no position is before an earlier one.
isOrdered(positions) ==
    \A i, j \in DOMAIN positions : i < j => ~isBefore(positions[j], positions[i])

(***************************************************************************)
(* Find and replace: updateFindResultFromRange                             *)
(***************************************************************************)
\* [ ...range ] for the range the scan is given: the content of the root.
rangeValues == walkRange(createRangeIn("root"))

\* The elements findCallback is to be called for, in the order of the walk.
textElements ==
    LET wanted == SelectSeq(rangeValues,
                    LAMBDA value : value.type = "elementStart" /\ checkChild(value.item))
    IN  [i \in DOMAIN wanted |-> wanted[i].item]

\* text.substring( start, end ) of a text given as a sequence of characters.
substring(text, start, end) ==
    SubSeq(text, start + 1, IF end > Len(text) THEN Len(text) ELSE end)

\* The words a search may look for.
searchWords == { <<"c", "a", "t">>, <<"s", "a", "t">> }

\* What findCallback may return for an element: hits { start, end, label } with
\* start before end, for any two offsets up to MaxOffset and for every place at
\* which a search word stands in the text; the label is the text of the hit.
hitsOf(item) ==
    LET text == rangeToText(createRangeIn(item))
        offsets == (0..MaxOffset) \X (0..MaxOffset)
        found == { pair \in (0..Len(text)) \X (0..Len(text)) :
                     /\ pair[1] < pair[2]
                     /\ substring(text, pair[1], pair[2]) \in searchWords }
    IN  { [start |-> range[1], end |-> range[2],
           label |-> substring(text, range[1], range[2])] :
            range \in {pair \in offsets : pair[1] < pair[2]} \cup found }

\* The arrays of at most n values of a set.
arraysOf(values, n) == UNION { [1..k -> values] : k \in 0..n }

\* A marker and a record an earlier scan left behind.
oldRecord(n, item, start, end) ==
    LET marker == addMarker(resultId(n),
                     createRange(createPositionAt(item, start), createPositionAt(item, end)))
    IN  [ id |-> marker.name,
          label |-> substring(rangeToText(createRangeIn(item)), start, end),
          marker |-> marker ]

\* The results a scan may start from: none, or records of earlier scans, sorted
\* by the start of their markers.
initialResults ==
    LET first1 == oldRecord(1, "p1", 1, 2)
        second == oldRecord(2, "h1", 0, 1)
    IN  { <<>>, <<first1>>, <<second>>, <<first1, second>> }

\* A marker of another feature.
otherMarker ==
    [ name |-> <<"comment:", 0>>, start |-> createPositionAt("p1", 0),
      end |-> createPositionAt("p1", 2), usingOperation |-> TRUE, affectsData |-> TRUE ]

InitScan ==
    /\ ObserverIdle
    /\ PureIdle
    /\ pc = "walk"
    /\ pos = 1
    /\ foundItems = <<>>
    /\ current = <<>>
    /\ \E initial \in initialResults :
          /\ results = initial
          /\ results0 = initial
          /\ markers = {initial[i].marker : i \in DOMAIN initial} \cup {otherMarker}
          /\ markers0 = {initial[i].marker : i \in DOMAIN initial} \cup {otherMarker}
    /\ index = 0
    /\ nextUid = 3
    /\ calls = <<>>
    /\ inserted = <<>>
    /\ faulted = NoElement

\* The callback of the outer forEach returns: the next value, or the end.
nextValue ==
    /\ pos' = pos + 1
    /\ pc' = IF pos + 1 > Len(rangeValues) THEN "done" ELSE "walk"

atElementStart ==
    /\ pc = "walk"
    /\ rangeValues[pos].type = "elementStart"

\* The outer forEach is at an elementStart of an element that takes text.
atTextElement ==
    /\ pc = "walk"
    /\ rangeValues[pos].type = "elementStart"
    /\ checkChild(rangeValues[pos].item)

\* The hits findCallback has returned so far in this scan.
hitsReturned == Len(inserted) + Len(foundItems)

\* findCallback( { item, text: rangeToText( model.createRangeIn( item ) ) } ),
\* and how it ended: "throws", "nothing" or "items" with the hits returned.
callFindCallback(outcome, items) ==
    calls' = Append(calls, [ item |-> rangeValues[pos].item,
                             text |-> rangeToText(createRangeIn(rangeValues[pos].item)),
                             outcome |-> outcome,
                             items |-> items ])

\* A value that is no elementStart, or an element that takes no text: nothing is done.
SkipValue ==
    /\ pc = "walk"
    /\ ~atTextElement
    /\ nextValue
    /\ UNCHANGED <<foundItems, current, markers, results, index, nextUid,
                   results0, markers0, calls, inserted, faulted>>
    /\ UNCHANGED obsVars
    /\ UNCHANGED pureVars

MatcherThrowsRollsBack ==
    /\ atTextElement
    /\ callFindCallback("throws", <<>>)
    /\ pc' = "thrown"
    /\ faulted' = rangeValues[pos].item
    /\ results' = results0
    /\ markers' = markers0
    /\ UNCHANGED <<pos, foundItems, current, index, nextUid, results0, markers0, inserted>>
    /\ UNCHANGED obsVars
    /\ UNCHANGED pureVars

MatcherThrowsAndScanGoesOn ==
    /\ atTextElement
    /\ callFindCallback("throws", <<>>)
    /\ nextValue
    /\ faulted' = rangeValues[pos].item
    /\ UNCHANGED <<foundItems, current, markers, results, index, nextUid,
                   results0, markers0, inserted>>
    /\ UNCHANGED obsVars
    /\ UNCHANGED pureVars

\* findCallback throws: nothing catches the exception, it leaves the forEach and
\* updateFindResultFromRange.
MatcherThrows ==
    /\ atTextElement
    /\ callFindCallback("throws", <<>>)
    /\ pc' = "thrown"
    /\ faulted' = rangeValues[pos].item
    /\ UNCHANGED <<pos, foundItems, current, markers, results, index, nextUid,
                   results0, markers0, inserted>>
    /\ UNCHANGED obsVars
    /\ UNCHANGED pureVars

MatcherReturnsNothingEndsScan ==
    /\ atTextElement
    /\ callFindCallback("nothing", <<>>)
    /\ pc' = "done"
    /\ UNCHANGED <<pos, foundItems, current, markers, results, index, nextUid,
                   results0, markers0, inserted, faulted>>
    /\ UNCHANGED obsVars
    /\ UNCHANGED pureVars

\* findCallback returns nothing: if ( !foundItems ) return;
MatcherReturnsNothing ==
    /\ atTextElement
    /\ callFindCallback("nothing", <<>>)
    /\ nextValue
    /\ UNCHANGED <<foundItems, current, markers, results, index, nextUid,
                   results0, markers0, inserted, faulted>>
    /\ UNCHANGED obsVars
    /\ UNCHANGED pureVars

\* findCallback returns an array of hits: foundItems.forEach( ... ) starts.
MatcherReturnsItems ==
    /\ atTextElement
    /\ \E items \in arraysOf(hitsOf(rangeValues[pos].item), MaxHits - hitsReturned) :
          /\ callFindCallback("items", items)
          /\ foundItems' = items
          /\ IF items = <<>> THEN nextValue
                             ELSE pc' = "forEach" /\ pos' = pos
    /\ UNCHANGED <<current, markers, results, index, nextUid,
                   results0, markers0, inserted, faulted>>
    /\ UNCHANGED obsVars
    /\ UNCHANGED pureVars

ChangeAddsMarkerOverOthers ==
    /\ pc = "forEach"
    /\ LET item == rangeValues[pos].item
           foundItem == Head(foundItems)
           marker == addMarker(resultId(nextUid),
                        createRange(createPositionAt(item, foundItem.start),
                                    createPositionAt(item, foundItem.end)))
       IN  /\ markers' = {other \in markers : other.name[1] = "findResult:"} \cup {marker}
           /\ current' = <<[item |-> item, foundItem |-> foundItem, marker |-> marker]>>
    /\ nextUid' = nextUid + 1
    /\ pc' = "change"
    /\ UNCHANGED <<pos, foundItems, results, index, results0, markers0, calls, inserted, faulted>>
    /\ UNCHANGED obsVars
    /\ UNCHANGED pureVars

\* model.change( writer => { ... the first half of the block: the id is made
\* and the marker is added to model.markers.
ChangeAddsMarker ==
    /\ pc = "forEach"
    /\ LET item == rangeValues[pos].item
           foundItem == Head(foundItems)
           marker == addMarker(resultId(nextUid),
                        createRange(createPositionAt(item, foundItem.start),
                                    createPositionAt(item, foundItem.end)))
       IN  /\ markers' = markers \cup {marker}
           /\ current' = <<[item |-> item, foundItem |-> foundItem, marker |-> marker]>>
    /\ nextUid' = nextUid + 1
    /\ pc' = "change"
    /\ UNCHANGED <<pos, foundItems, results, index, results0, markers0, calls, inserted, faulted>>
    /\ UNCHANGED obsVars
    /\ UNCHANGED pureVars

ChangeAddsResultWithNewId ==
    /\ pc = "change"
    /\ LET marker == current[1].marker
           record == [ id |-> resultId(nextUid), label |-> current[1].foundItem.label,
                       marker |-> marker ]
       IN  /\ index' = findInsertIndex(results, marker)
           /\ results' = add(results, record, findInsertIndex(results, marker))
           /\ inserted' = Append(inserted, [ item |-> current[1].item,
                                             foundItem |-> current[1].foundItem,
                                             record |-> record ])
    /\ nextUid' = nextUid + 1
    /\ foundItems' = Tail(foundItems)
    /\ current' = <<>>
    /\ IF Tail(foundItems) = <<>> THEN nextValue
                                  ELSE pc' = "forEach" /\ pos' = pos
    /\ UNCHANGED <<markers, results0, markers0, calls, faulted>>
    /\ UNCHANGED obsVars
    /\ UNCHANGED pureVars

\* ... the second half of the block: the record is added to the results at
\* findInsertIndex( results, marker ) } ); the block ends, and the inner forEach
\* goes on to the next hit or returns.
ChangeAddsResult ==
    /\ pc = "change"
    /\ LET marker == current[1].marker
           record == [ id |-> marker.name, label |-> current[1].foundItem.label,
                       marker |-> marker ]
       IN  /\ index' = findInsertIndex(results, marker)
           /\ results' = add(results, record, findInsertIndex(results, marker))
           /\ inserted' = Append(inserted, [ item |-> current[1].item,
                                             foundItem |-> current[1].foundItem,
                                             record |-> record ])
    /\ foundItems' = Tail(foundItems)
    /\ current' = <<>>
    /\ IF Tail(foundItems) = <<>> THEN nextValue
                                  ELSE pc' = "forEach" /\ pos' = pos
    /\ UNCHANGED <<markers, nextUid, results0, markers0, calls, faulted>>
    /\ UNCHANGED obsVars
    /\ UNCHANGED pureVars

NextScan ==
    \/ SkipValue
    \/ MatcherThrows
    \/ MatcherReturnsNothing
    \/ MatcherReturnsItems
    \/ ChangeAddsMarker
    \/ ChangeAddsResult

SpecScan == InitScan /\ [][NextScan]_vars

(***************************************************************************)
(* Find and replace: properties of the scan                                *)
(***************************************************************************)
\* The records and the markers the scan has added so far.
addedRecords == {results[i] : i \in DOMAIN results} \ {results0[i] : i \in DOMAIN results0}
addedMarkers == markers \ markers0

\* The start positions of the hits in the order the scan met them.
discoveryStarts == [i \in DOMAIN inserted |-> inserted[i].record.marker.start]

\* C1: started from sorted results, the results are sorted by the start of
\* their markers in every state of the scan: after each insertion, mid-scan and
\* at the end, in whatever order findCallback returns its hits.
C1_ResultsStaySorted == isOrdered(starts(results))

\* C1 witness: the scan ended after adding, to results that held records already,
\* hits that findCallback had not returned in document order.
C1_HitsCameOutOfOrder ==
    /\ pc = "done"
    /\ results0 # <<>>
    /\ Len(inserted) >= 2
    /\ ~isOrdered(discoveryStarts)

\* C7: outside a model.change() block, the markers the scan added are exactly the
\* markers of the records it added, each record's id is its marker's name, and
\* that name starts with 'findResult:'.
C7_MarkersMatchRecords ==
    pc # "change" =>
        /\ addedMarkers = {record.marker : record \in addedRecords}
        /\ \A record \in addedRecords :
              /\ record.id = record.marker.name
              /\ record.id[1] = "findResult:"
        /\ Cardinality(addedRecords) = Len(inserted)

\* C7 witness: the scan stands between two model.change() blocks.
C7_BetweenChangeBlocks ==
    pc = "forEach" /\ Len(inserted) >= 1 /\ addedMarkers # {}

\* C8: when findCallback has thrown for an element, the results hold no record
\* for that element, and every record added for an earlier element is still in
\* the results, at its place among the others, with its marker in model.markers.
C8_FaultKeepsEarlierRecords ==
    pc = "thrown" =>
        /\ \A i \in DOMAIN inserted : inserted[i].item # faulted
        /\ \A record \in addedRecords :
              getPath(faulted) # SubSeq(record.marker.start, 1, Len(getPath(faulted)))
        /\ \A i \in DOMAIN inserted :
              /\ inserted[i].record \in addedRecords
              /\ inserted[i].record.marker \in markers
        /\ Len(results) = Len(results0) + Len(inserted)
        /\ \A i \in DOMAIN results0 : \E j \in DOMAIN results : results[j] = results0[i]
        /\ markers0 \subseteq markers

\* C8 witness: findCallback threw after records had been added for an earlier element.
C8_FaultAfterInsertions ==
    pc = "thrown" /\ Len(inserted) >= 2 /\ faulted # textElements[1]

\* The elements findCallback has been called for, in order.
calledItems == [i \in DOMAIN calls |-> calls[i].item]

\* C9 (as stated): when findCallback throws for an element, the elements that
\* take text and come later in the range are still passed to findCallback.
C9_LaterElementsStillScanned ==
    (faulted # NoElement /\ pc \in {"done", "thrown"}) =>
        \A i \in DOMAIN textElements :
            \E j \in DOMAIN calls : calls[j].item = textElements[i]

\* C9 (amended): when findCallback throws for an element the whole scan ends
\* there: findCallback has been called for the elements up to that one and for no
\* later one, and no record is added after the fault.
C9_FaultEndsTheScan ==
    faulted # NoElement =>
        /\ pc = "thrown"
        /\ calledItems # <<>>
        /\ calledItems[Len(calledItems)] = faulted
        /\ calledItems = SubSeq(textElements, 1, Len(calledItems))
        /\ \A i \in DOMAIN inserted : inserted[i].item # faulted
        /\ \A i \in DOMAIN inserted :
              \E j \in 1..(Len(calledItems) - 1) : calledItems[j] = inserted[i].item

\* C9 witness: findCallback threw for an element that is not the last one that
\* takes text.
C9_FaultBeforeLastElement ==
    /\ pc = "thrown"
    /\ Len(calledItems) < Len(textElements)
    /\ Len(inserted) >= 1

\* A list of positions goes forward through the document: every position is
\* before the later ones, so no two are the same.
isForward(positions) ==
    \A i, j \in DOMAIN positions : i < j => isBefore(positions[i], positions[j])

\* The hits of the example: "cat" at 0 to 3 and "sat" at 4 to 7 of "cat sat".
catHit == [start |-> 0, end |-> 3, label |-> <<"c", "a", "t">>]
satHit == [start |-> 4, end |-> 7, label |-> <<"s", "a", "t">>]

\* C13: in a scan that started from empty results and has met its hits in
\* forward document order, all starting at different positions, getIndex of the
\* k-th record met is k-1 and the length of the results is the number of hits;
\* for "cat sat" with the hits {0,3} and {4,7} the scan ends with length 2 and
\* the second record at index 1.
C13_IndexOrderIsDiscoveryOrder ==
    (pc # "change" /\ results0 = <<>> /\ isForward(discoveryStarts)) =>
        /\ Len(results) = Len(inserted)
        /\ \A k \in DOMAIN inserted :
              /\ \E i \in DOMAIN results : results[i] = inserted[k].record
              /\ getIndex(results, inserted[k].record) = k - 1
        /\ ( /\ pc = "done"
             /\ Len(inserted) = 2
             /\ inserted[1].item = "h1" /\ inserted[1].foundItem = catHit
             /\ inserted[2].item = "h1" /\ inserted[2].foundItem = satHit ) =>
                /\ Len(results) = 2
                /\ getIndex(results, inserted[2].record) = 1

\* C13 witness: the scan of "cat sat" into empty results ended with the two hits
\* of the example, met in that order.
C13_CatSatExample ==
    /\ pc = "done"
    /\ results0 = <<>>
    /\ Len(inserted) = 2
    /\ inserted[1].item = "h1" /\ inserted[1].foundItem = catHit
    /\ inserted[2].item = "h1" /\ inserted[2].foundItem = satHit
    /\ isForward(discoveryStarts)
    /\ Len(results) = 2

RECURSIVE rootOf(_)
\* The root or the fragment an element stands in.
rootOf(item) ==
    IF item \in {"root", "fragment"} THEN item ELSE rootOf(parentOf(item))

\* The elements inside the scanned range that the schema lets hold text.
elementsToSearch ==
    { item \in Elements \ {"root", "fragment"} : rootOf(item) = "root" /\ checkChild(item) }

\* The text of an element, offset by offset: the character there, or "\n" for
\* an element there.
flatText(item) ==
    [ k \in 1..maxOffset(item) |->
        IF unitAt(item, k - 1).text THEN unitAt(item, k - 1).value ELSE "\n" ]

\* C14: findCallback is called only for elements of the range that take text,
\* each time with the element and its flattened text, in document order and so
\* at most once for an element; when the scan has ended without a fault it has
\* been called for every such element, exactly once.
C14_CalledOncePerTextElement ==
    /\ \A i \in DOMAIN calls :
          /\ calls[i].item \in elementsToSearch
          /\ calls[i].text = flatText(calls[i].item)
    /\ \A i, j \in DOMAIN calls :
          i < j => isBefore(getPath(calls[i].item), getPath(calls[j].item))
    /\ (pc = "done" /\ faulted = NoElement) =>
          /\ {calls[i].item : i \in DOMAIN calls} = elementsToSearch
          /\ Len(calls) = Cardinality(elementsToSearch)

\* C14 witness: the scan ended after calling findCallback for the paragraph, the
\* paragraph inside the block quote and the heading, having passed the block
\* quote, the soft break, the text and the ends of the elements.
C14_AllTextElementsCalled ==
    /\ pc = "done"
    /\ faulted = NoElement
    /\ calledItems = <<"p1", "p2", "h1">>
    /\ calls[2].text = <<"c", "\n", "d">>
    /\ \E i \in DOMAIN rangeValues : rangeValues[i].type = "elementEnd"

RECURSIVE returnedHits(_)
\* The hits findCallback returned in a list of calls, each with its element, in
\* the order of the calls and of the arrays returned.
returnedHits(someCalls) ==
    IF someCalls = <<>> THEN <<>>
    ELSE LET last == someCalls[Len(someCalls)]
         IN  returnedHits(SubSeq(someCalls, 1, Len(someCalls) - 1))
                \o [i \in DOMAIN last.items |-> [item |-> last.item, foundItem |-> last.items[i]]]

\* The hits returned so far that the inner forEach has been through.
handledHits == Len(returnedHits(calls)) - Len(foundItems)

\* C15: the scan only adds. For the hits findCallback returned and the scan has
\* been through, one record each was added, for those hits in their order, and
\* one marker each, named 'findResult:...'; the results are longer by the number
\* of those hits, and by the number of all hits returned once the scan is over;
\* the records the results held before are all there in their old order; the
\* markers that were there before are there unchanged.
C15_ScanOnlyAdds ==
    /\ Len(inserted) = handledHits
    /\ \A k \in DOMAIN inserted :
          /\ inserted[k].item = returnedHits(calls)[k].item
          /\ inserted[k].foundItem = returnedHits(calls)[k].foundItem
    /\ Len(results) = Len(results0) + handledHits
    /\ Cardinality(addedRecords) = handledHits
    /\ Cardinality(addedMarkers) = handledHits + (IF pc = "change" THEN 1 ELSE 0)
    /\ Cardinality({marker.name : marker \in addedMarkers}) = Cardinality(addedMarkers)
    /\ \A marker \in addedMarkers : marker.name[1] = "findResult:"
    /\ pc \in {"done", "thrown"} => Len(results) = Len(results0) + Len(returnedHits(calls))
    /\ SelectSeq(results, LAMBDA record : record \notin addedRecords) = results0
    /\ markers0 \subseteq markers
    /\ otherMarker \in markers

\* C15 witness: the scan ended after adding two records before and between the
\* two records the results held, with the marker of another feature in place.
C15_AddedAmongOldRecords ==
    /\ pc = "done"
    /\ Len(results0) = 2
    /\ Len(results) = 4
    /\ results[1] \in addedRecords
    /\ results[3] \in addedRecords
    /\ results[2] = results0[1]
    /\ results[4] = results0[2]
    /\ otherMarker \in markers

\* The text findCallback was given for an element.
textGiven(item) ==
    calls[CHOOSE j \in DOMAIN calls : calls[j].item = item].text

\* C16: for each hit { start, end, label } findCallback returned for an element
\* and the scan has recorded, the marker goes from offset start to offset end
\* inside that element, is in model.markers, is not part of the data and uses
\* no operation; the record is in the results with the hit's label and that
\* marker; and for a hit inside the text the range of the marker holds exactly
\* the characters start to end of the text findCallback was given.
C16_MarkerSpansTheHit ==
    \A k \in DOMAIN inserted :
        LET item == returnedHits(calls)[k].item
            hit == returnedHits(calls)[k].foundItem
            record == inserted[k].record
        IN  /\ record.marker.start = getPath(item) \o <<hit.start>>
            /\ record.marker.end = getPath(item) \o <<hit.end>>
            /\ record.marker.usingOperation = FALSE
            /\ record.marker.affectsData = FALSE
            /\ record.marker \in markers
            /\ record.label = hit.label
            /\ \E i \in DOMAIN results : results[i] = record
            /\ hit.end <= maxOffset(item) =>
                  /\ Len(textGiven(item)) = maxOffset(item)
                  /\ rangeToText([item |-> item, start |-> hit.start, end |-> hit.end])
                        = SubSeq(textGiven(item), hit.start + 1, hit.end)

\* C16 witness: the scan ended with the hit "sat" of the heading recorded, its
\* marker from offset 4 to offset 7 of the heading, and a hit in the paragraph
\* of the block quote that spans the soft break.
C16_SatMarked ==
    /\ pc = "done"
    /\ \E k \in DOMAIN inserted :
          /\ inserted[k].item = "h1"
          /\ inserted[k].foundItem = satHit
          /\ inserted[k].record.marker.start = <<2, 4>>
          /\ inserted[k].record.marker.end = <<2, 7>>
          /\ inserted[k].record.label = <<"s", "a", "t">>
    /\ \E k \in DOMAIN inserted :
          /\ inserted[k].item = "p2"
          /\ inserted[k].record.marker.start = <<1, 0, 1>>
          /\ inserted[k].record.marker.end = <<1, 0, 2>>
          /\ inserted[k].record.label = <<"\n">>

\* A marker has both ends inside an element.
markerIn(marker, item) ==
    /\ SubSeq(marker.start, 1, Len(marker.start) - 1) = getPath(item)
    /\ SubSeq(marker.end, 1, Len(marker.end) - 1) = getPath(item)

\* C17: when findCallback returned nothing for an element, the scan has added no
\* record and no marker for that element, and it goes on: once it has ended
\* without a fault, findCallback has been called for every later element of the
\* range that takes text, and every hit returned by a later call has its record
\* in the results and its marker in model.markers.
C17_NothingFoundScanGoesOn ==
    \A j \in DOMAIN calls :
        calls[j].outcome = "nothing" =>
            /\ \A k \in DOMAIN inserted : inserted[k].item # calls[j].item
            /\ \A record \in addedRecords : ~markerIn(record.marker, calls[j].item)
            /\ \A marker \in addedMarkers : ~markerIn(marker, calls[j].item)
            /\ (pc = "done" /\ faulted = NoElement) =>
                  /\ \A item \in elementsToSearch :
                        isBefore(getPath(calls[j].item), getPath(item)) =>
                            \E later \in DOMAIN calls : later > j /\ calls[later].item = item
                  /\ \A later \in DOMAIN calls : \A i \in DOMAIN calls[later].items :
                        later > j =>
                            \E k \in DOMAIN inserted :
                                /\ inserted[k].item = calls[later].item
                                /\ inserted[k].foundItem = calls[later].items[i]
                                /\ inserted[k].record \in addedRecords
                                /\ inserted[k].record.marker \in addedMarkers
                                /\ markerIn(inserted[k].record.marker, calls[later].item)

\* C17 witness: findCallback returned nothing for the first paragraph, and the
\* scan ended with the hits of the two later elements recorded.
C17_NothingThenHits ==
    /\ pc = "done"
    /\ Len(calls) = 3
    /\ calls[1].outcome = "nothing"
    /\ calls[2].outcome = "items" /\ Len(calls[2].items) = 1
    /\ calls[3].outcome = "items" /\ Len(calls[3].items) = 1
    /\ Len(inserted) = 2
    /\ Len(results) = Len(results0) + 2

\* The records in the order they came into the results: those of earlier scans,
\* then those of this scan as it added them.
insertionOrder == results0 \o [k \in DOMAIN inserted |-> inserted[k].record]

\* C18: the record added last stands at the index findInsertIndex gave; no record
\* before it starts strictly after it, and the record right after it, if any,
\* does: it stands where the first record starting strictly after it stood.
\* So records whose markers start at the same position stand in the results in
\* the order in which they were added.
C18_TiesKeepInsertionOrder ==
    /\ inserted # <<>> =>
          LET record == inserted[Len(inserted)].record
          IN  /\ results[index + 1] = record
              /\ \A i \in 1..index :
                    ~isBefore(record.marker.start, results[i].marker.start)
              /\ index + 2 <= Len(results) =>
                    isBefore(record.marker.start, results[index + 2].marker.start)
    /\ \A i, j \in DOMAIN results :
          (i < j /\ results[i].marker.start = results[j].marker.start) =>
              getIndex(insertionOrder, results[i]) < getIndex(insertionOrder, results[j])

\* C18 witness: two hits starting where a record of an earlier scan starts were
\* added, and the three records stand in the order they came.
C18_ThreeEqualStarts ==
    /\ pc = "done"
    /\ Len(results0) = 2
    /\ Len(inserted) = 2
    /\ results[1] = results0[1]
    /\ results[2] = inserted[1].record
    /\ results[3] = inserted[2].record
    /\ results[1].marker.start = results[2].marker.start
    /\ results[2].marker.start = results[3].marker.start
    /\ results[4] = results0[2]

(***************************************************************************)
(* Find and replace: findInsertIndex on its own                            *)
(***************************************************************************)
\* The sorted lists of at most n offsets up to MaxStart.
sortedOffsets(n) ==
    { offsets \in UNION { [1..k -> 0..MaxStart] : k \in 0..n } :
        \A i, j \in DOMAIN offsets : i < j => offsets[i] <= offsets[j] }

\* The results are any sorted list of records whose markers start in one
\* paragraph, and a marker for a new hit in that paragraph has just been added.
InitInsert ==
    /\ ObserverIdle
    /\ PureIdle
    /\ pc = "change"
    /\ pos = 1
    /\ \E offsets \in sortedOffsets(MaxRecords), start \in 0..MaxStart :
          LET old == [i \in DOMAIN offsets |-> oldRecord(i, "p1", offsets[i], offsets[i] + 1)]
              foundItem == [start |-> start, end |-> start + 1,
                            label |-> substring(rangeToText(createRangeIn("p1")),
                                                start, start + 1)]
              marker == addMarker(resultId(Len(old) + 1),
                           createRange(createPositionAt("p1", foundItem.start),
                                       createPositionAt("p1", foundItem.end)))
          IN  /\ results = old
              /\ results0 = old
              /\ markers = {old[i].marker : i \in DOMAIN old} \cup {marker}
              /\ markers0 = {old[i].marker : i \in DOMAIN old}
              /\ nextUid = Len(old) + 2
              /\ foundItems = <<foundItem>>
              /\ current = <<[item |-> "p1", foundItem |-> foundItem, marker |-> marker]>>
    /\ index = 0
    /\ calls = <<>>
    /\ inserted = <<>>
    /\ faulted = NoElement

\* The rest of the model.change() block; the scan is not followed further.
NextInsert ==
    /\ ChangeAddsResult
    /\ pos = 1

SpecInsert == InitInsert /\ [][NextInsert]_vars

\* The offsets in the paragraph at which the markers of the records start.
startOffsets(list) == [i \in DOMAIN list |-> list[i].marker.start[2]]

\* The record added last, and the offset at which its marker starts.
newRecord == inserted[Len(inserted)].record
newStart == newRecord.marker.start[2]

\* The index of the first of the offsets that is at or after an offset, or the
\* number of offsets.
firstAtOrAfter(offsets, offset) ==
    IF \E i \in DOMAIN offsets : offsets[i] >= offset
      THEN first({i \in DOMAIN offsets : offsets[i] >= offset}) - 1
      ELSE Len(offsets)

\* C2 (as stated): findInsertIndex gives the index of the first record whose
\* marker starts at or after the new marker's start, or the length: a record
\* with an equal start is put before the one there ([2,5,9] and 5 give 1).
C2_InsertsBeforeEqualStart ==
    inserted # <<>> => index = firstAtOrAfter(startOffsets(results0), newStart)

\* C2 (amended): findInsertIndex gives the index of the first record whose
\* marker starts strictly after the new marker's start, or the length: it is the
\* number of records that start at or before the new start, so a record with an
\* equal start is put after the ones there ([2,5,9] and 5 give 2, 10 gives 3,
\* 0 gives 0).
C2_InsertsAfterEqualStart ==
    inserted # <<>> =>
        LET old == startOffsets(results0)
        IN  /\ index = Cardinality({i \in DOMAIN old : old[i] <= newStart})
            /\ \A i \in DOMAIN old : i <= index <=> old[i] <= newStart
            /\ index = Len(old) <=> ~\E i \in DOMAIN old : old[i] > newStart
            /\ results[index + 1] = newRecord
            /\ (old = <<2, 5, 9>> /\ newStart = 5) => index = 2
            /\ (old = <<2, 5, 9>> /\ newStart = 10) => index = 3
            /\ (old = <<2, 5, 9>> /\ newStart = 0) => index = 0

\* C2 witness: a record starting at 5 was added to records starting at 2, 5 and 9.
C2_EqualStartExample ==
    /\ inserted # <<>>
    /\ startOffsets(results0) = <<2, 5, 9>>
    /\ newStart = 5
    /\ startOffsets(results) = <<2, 5, 5, 9>>
    /\ results[2] = results0[2]

====
